---- MODULE Spec2Model ----
(***************************************************************************)
(* Model of AttendanceReportGenerator (src/code.py): preprocess_data,      *)
(* generate_monthly_report, generate_summary_report, the selection of the  *)
(* months and generate_reports, over small sets of raw attendance rows.    *)
(*                                                                         *)
(* Strings the code inspects character by character (employee ids, names,  *)
(* the TR label) are sequences of one-character strings.  A timestamp is   *)
(* a record [year, month, day, sec], sec being the second of the day.      *)
(***************************************************************************)
EXTENDS Integers, Sequences, FiniteSets, TLC

\* raw: the rows read from the file; df: self.df after preprocess_data;
\* month, monthly_report, summary_report: the month generate_reports is at
\* and what generate_monthly_report and generate_summary_report returned
\* for it; selected_months: the list generate_reports is called with, and
\* selection: where the list comes from; written: the files generate_reports
\* wrote, in the order it wrote them
VARIABLES raw, df, pc, missing_removed, datetime_failures, available_months,
          month, monthly_report, summary_report,
          selected_months, selection, written

run_vars == <<selected_months, selection, written>>

vars == <<raw, df, pc, missing_removed, datetime_failures, available_months,
          month, monthly_report, summary_report, run_vars>>

\* ------------------------------------------------------------------------
\* Bounds of the model
\* ------------------------------------------------------------------------
MaxRows == 3

\* The longest list of months asked for with --months or passed to
\* generate_reports
MaxMonths == 3

\* The most comma-separated parts of an answer to the selection menu
MaxParts == 2

\* ------------------------------------------------------------------------
\* Strings
\* ------------------------------------------------------------------------
\* The characters used, in code-point order (Python compares strings by
\* code point).
Ascii ==
  << " ", "+", "-", "/",
     "0", "1", "2", "3", "4", "5", "6", "7", "8", "9",
     "A", "B", "C", "D", "E", "F", "G", "H", "I", "J", "K", "L", "M",
     "N", "O", "P", "Q", "R", "S", "T", "U", "V", "W", "X", "Y", "Z",
     "a", "b", "c", "d", "e", "f", "g", "h", "i", "j", "k", "l", "m",
     "n", "o", "p", "q", "r", "s", "t", "u", "v", "w", "x", "y", "z" >>

AsciiCode ==
  [c \in {Ascii[i] : i \in 1..Len(Ascii)} |-> CHOOSE i \in 1..Len(Ascii) : Ascii[i] = c]

\* ord(c), up to a shift
CodeOf(c) == AsciiCode[c]

UpperA == CodeOf("A")
UpperZ == CodeOf("Z")
LowerA == CodeOf("a")

\* str.lower() on one character
LowerChar(c) ==
  IF CodeOf(c) >= UpperA /\ CodeOf(c) <= UpperZ
    THEN Ascii[CodeOf(c) - UpperA + LowerA]
    ELSE c

\* str.lower()
Lower(s) == [i \in 1..Len(s) |-> LowerChar(s[i])]

\* s < t for Python strings
RECURSIVE StrLess(_, _)
StrLess(s, t) ==
  IF t = <<>> THEN FALSE
  ELSE IF s = <<>> THEN TRUE
  ELSE IF s[1] # t[1] THEN CodeOf(s[1]) < CodeOf(t[1])
  ELSE StrLess(Tail(s), Tail(t))

\* str.strip(): leading and trailing blanks removed
RECURSIVE LStrip(_)
LStrip(s) == IF s # <<>> /\ s[1] = " " THEN LStrip(Tail(s)) ELSE s

RECURSIVE RStrip(_)
RStrip(s) ==
  IF s # <<>> /\ s[Len(s)] = " " THEN RStrip(SubSeq(s, 1, Len(s) - 1)) ELSE s

Strip(s) == RStrip(LStrip(s))

\* re.search(p, s) for a pattern p without metacharacters: p is a substring of s
Contains(s, p) ==
  \E i \in 1..(Len(s) - Len(p) + 1) : SubSeq(s, i, i + Len(p) - 1) = p

\* The string as it is
Unfilled(s, width) == s

\* str.zfill(width): zeros on the left up to width, after a leading sign
RECURSIVE Zeros(_)
Zeros(n) == IF n <= 0 THEN <<>> ELSE <<"0">> \o Zeros(n - 1)

zfill(s, width) ==
  IF Len(s) >= width THEN s
  ELSE IF s # <<>> /\ s[1] \in {"+", "-"}
    THEN <<s[1]>> \o Zeros(width - Len(s)) \o Tail(s)
    ELSE Zeros(width - Len(s)) \o s

\* ------------------------------------------------------------------------
\* Calendar (datetime.datetime, datetime.timedelta, pd.date_range)
\* ------------------------------------------------------------------------
IsLeap(y) == y % 4 = 0 /\ (y % 100 # 0 \/ y % 400 = 0)

DaysInMonthTable == <<31, 28, 31, 30, 31, 30, 31, 31, 30, 31, 30, 31>>

\* _days_in_month, the year given by whether it is a leap year
DaysInMonthL(leap, m) == IF m = 2 /\ leap THEN 29 ELSE DaysInMonthTable[m]

DaysInMonth(y, m) == DaysInMonthL(IsLeap(y), m)

\* datetime.datetime(y, m, d) raises ValueError unless this holds
ValidDate(y, m, d) ==
  /\ y >= 1 /\ y <= 9999
  /\ m >= 1 /\ m <= 12
  /\ d >= 1 /\ d <= DaysInMonth(y, m)

DaysBeforeYear(y) ==
  (y - 1) * 365 + ((y - 1) \div 4) - ((y - 1) \div 100) + ((y - 1) \div 400)

\* _days_before_month
RECURSIVE DaysBeforeMonthL(_, _)
DaysBeforeMonthL(leap, m) ==
  IF m = 1 THEN 0 ELSE DaysBeforeMonthL(leap, m - 1) + DaysInMonthL(leap, m - 1)

\* date.toordinal(): 1 is 0001-01-01
ToOrdinal(y, m, d) == DaysBeforeYear(y) + DaysBeforeMonthL(IsLeap(y), m) + d

\* date.fromordinal(n), as datetime computes it (_ord2ymd)
FromOrdinal(n) ==
  LET n0   == n - 1
      n400 == n0 \div 146097
      r400 == n0 % 146097
      n100 == r400 \div 36524
      r100 == r400 % 36524
      n4   == r100 \div 1461
      r4   == r100 % 1461
      n1   == r4 \div 365
      r1   == r4 % 365
      year == n400 * 400 + 1 + n100 * 100 + n4 * 4 + n1
  IN IF n1 = 4 \/ n100 = 4
       THEN [year |-> year - 1, month |-> 12, day |-> 31]
       ELSE LET leap  == n1 = 3 /\ (n4 # 24 \/ n100 = 3)
                guess == (r1 + 50) \div 32
                mon   == IF DaysBeforeMonthL(leap, guess) > r1
                           THEN guess - 1 ELSE guess
            IN [year |-> year, month |-> mon,
                day |-> r1 - DaysBeforeMonthL(leap, mon) + 1]

\* A timestamp; sec is the second of the day
Timestamp(y, m, d, s) == [year |-> y, month |-> m, day |-> d, sec |-> s]

\* t <= u for timestamps: by day, then by second of the day
TimeLE(t, u) ==
  LET a == ToOrdinal(t.year, t.month, t.day)
      b == ToOrdinal(u.year, u.month, u.day)
  IN a < b \/ (a = b /\ t.sec <= u.sec)

\* Timestamp.date()
DateOf(t) == <<t.year, t.month, t.day>>

\* strftime('%H:%M'): hours and minutes, the seconds cut off
HHMM(t) == <<t.sec \div 3600, (t.sec % 3600) \div 60>>

\* strftime('%d-%m-%Y') of a day
DDMMYYYY(d) == <<d.day, d.month, d.year>>

\* strftime('%Y-%m')
YearMonthOf(t) == <<t.year, t.month>>

\* "YYYY-MM" strings compare as (year, month) pairs
MonthLess(a, b) == a[1] < b[1] \/ (a[1] = b[1] /\ a[2] < b[2])

\* ------------------------------------------------------------------------
\* The DateTime field of a raw row
\* ------------------------------------------------------------------------
\* What read_csv hands over for the DateTime column, by its shape:
\*   kind "nan"   the field is missing (NaN)
\*   kind "blank" only white space
\*   kind "text"  text that is no date
\*   kind "num"   "a<sep>b<sep>c HH:MM[:SS]", a, b, c numbers; secs tells
\*                whether the ":SS" part is written
RawDT(kind, sep, a, b, c, sec, secs) ==
  [kind |-> kind, sep |-> sep, a |-> a, b |-> b, c |-> c,
   sec |-> sec, secs |-> secs]

NaN == RawDT("nan", "", 0, 0, 0, 0, FALSE)
BlankDT == RawDT("blank", "", 0, 0, 0, 0, FALSE)
TextDT == RawDT("text", "", 0, 0, 0, 0, FALSE)

\* "Y-m-d H:M:S"
IsoDT(y, m, d, s) == RawDT("num", "-", y, m, d, s, TRUE)
\* "a/b/Y H:M:S"
SlashDT(a, b, y, s) == RawDT("num", "/", a, b, y, s, TRUE)

NaT == [year |-> 0, month |-> 0, day |-> 0, sec |-> 0]

\* %Y takes a four-digit year, %d and %m one or two digits
FourDigits(n) == n >= 1000 /\ n <= 9999
TwoDigits(n) == n >= 0 /\ n <= 99

\* formats_to_try, each by separator, field order and whether it has %S
formats_to_try ==
  << [sep |-> "-", order |-> "Ymd", secs |-> TRUE],
     [sep |-> "/", order |-> "dmY", secs |-> TRUE],
     [sep |-> "/", order |-> "mdY", secs |-> TRUE],
     [sep |-> "/", order |-> "Ymd", secs |-> TRUE],
     [sep |-> "-", order |-> "dmY", secs |-> TRUE],
     [sep |-> "-", order |-> "Ymd", secs |-> FALSE],
     [sep |-> "/", order |-> "dmY", secs |-> FALSE] >>

\* The fields of s read in the order of the format
FieldsAs(order, s) ==
  CASE order = "Ymd" -> [y |-> s.a, m |-> s.b, d |-> s.c,
                         ok |-> FourDigits(s.a) /\ TwoDigits(s.b) /\ TwoDigits(s.c)]
    [] order = "dmY" -> [y |-> s.c, m |-> s.b, d |-> s.a,
                         ok |-> FourDigits(s.c) /\ TwoDigits(s.b) /\ TwoDigits(s.a)]
    [] order = "mdY" -> [y |-> s.c, m |-> s.a, d |-> s.b,
                         ok |-> FourDigits(s.c) /\ TwoDigits(s.a) /\ TwoDigits(s.b)]

\* Does pd.to_datetime(s, format=fmt) succeed
Matches(fmt, s) ==
  /\ s.kind = "num"
  /\ s.sep = fmt.sep
  /\ s.secs = fmt.secs
  /\ LET f == FieldsAs(fmt.order, s) IN f.ok /\ ValidDate(f.y, f.m, f.d)

\* pd.to_datetime(s, format=fmt), for a format that matches
ParseAs(order, s) ==
  LET f == FieldsAs(order, s) IN Timestamp(f.y, f.m, f.d, s.sec)

\* pd.to_datetime(s, errors='coerce'): the year first when the first field
\* has four digits, otherwise the month first, the day first when that is
\* no date; NaT when nothing fits
AutoParse(s) ==
  IF s.kind # "num" THEN NaT
  ELSE IF FourDigits(s.a)
    THEN IF FieldsAs("Ymd", s).ok /\ ValidDate(s.a, s.b, s.c)
           THEN ParseAs("Ymd", s) ELSE NaT
  ELSE IF FieldsAs("mdY", s).ok /\ ValidDate(s.c, s.a, s.b)
    THEN ParseAs("mdY", s)
  ELSE IF FieldsAs("dmY", s).ok /\ ValidDate(s.c, s.b, s.a)
    THEN ParseAs("dmY", s)
  ELSE NaT

\* The loop over formats_to_try from format i on, then the automatic parser
RECURSIVE TryFormats(_, _)
TryFormats(i, s) ==
  IF i > Len(formats_to_try) THEN AutoParse(s)
  ELSE IF Matches(formats_to_try[i], s) THEN ParseAs(formats_to_try[i].order, s)
  ELSE TryFormats(i + 1, s)

parse_datetime_safe(dt_str) ==
  IF dt_str.kind \in {"nan", "blank"} THEN NaT ELSE TryFormats(1, dt_str)

\* ------------------------------------------------------------------------
\* Sequences
\* ------------------------------------------------------------------------
Range(s) == {s[i] : i \in 1..Len(s)}

\* All sequences over S of 1 to n elements
SeqsUpTo(S, n) == UNION {[1..k -> S] : k \in 1..n}

\* ------------------------------------------------------------------------
\* Raw rows: the inputs of the model
\* ------------------------------------------------------------------------
\* The columns of a raw row the code reads: EnNo, Name, TR and DateTime
RawRow(en, name, tr, dt) == [EnNo |-> en, Name |-> name, TR |-> tr, DateTime |-> dt]

Id7 == <<"7">>
Id07 == <<"0", "0", "0", "0", "0", "0", "0", "7">>
Id12 == <<"1", "2">>

NameAnu == <<"A", "n", "u">>
NameBen == <<"B", "e", "n">>

LabelIn == <<"I", "n">>
LabelOut == <<"O", "u", "t">>
LabelInOut == <<"I", "n", "/", "O", "u", "t">>
LabelBreak == <<"B", "r", "e", "a", "k">>

\* Seconds of the day of 00:00:00, 09:05:00 and 17:30:00
Midnight == 0 * 3600 + 0 * 60
Morning == 9 * 3600 + 5 * 60
Evening == 17 * 3600 + 30 * 60

\* One employee in 2024-02: labels of every kind, a punch at midnight,
\* several punches on one day, a second day
DirectionRows ==
  {RawRow(Id7, NameAnu, e[1], IsoDT(2024, 2, e[2], e[3])) :
     e \in {<<LabelIn, 1, Midnight>>, <<LabelIn, 1, Morning>>,
            <<LabelOut, 1, Morning>>, <<LabelOut, 1, Evening>>,
            <<LabelInOut, 1, Evening>>, <<LabelBreak, 1, Morning>>,
            <<LabelBreak, 2, Morning>>, <<LabelIn, 2, Evening>>}}

\* Several employees, ids with and without leading zeros, two names for one id
EmployeeRows ==
  {RawRow(e[1], e[2], p[1], IsoDT(2024, 2, p[2], p[3])) :
     e \in {<<Id7, NameAnu>>, <<Id07, NameAnu>>, <<Id7, NameBen>>, <<Id12, NameBen>>},
     p \in {<<LabelIn, 1, Morning>>, <<LabelOut, 2, Evening>>}}

\* Punches in months of every length, December and leap years among them
CalendarRows ==
  {RawRow(Id7, NameAnu, LabelIn, IsoDT(d[1], d[2], d[3], Morning)) :
     d \in {<<2023, 12, 31>>, <<2024, 1, 1>>, <<2024, 2, 29>>, <<2023, 2, 1>>,
            <<2100, 2, 28>>, <<2024, 4, 30>>, <<2024, 4, 1>>}}

\* Date-time fields of every shape, parsable or not
DateTimeRows ==
  {RawRow(Id7, NameAnu, LabelIn, dt) :
     dt \in {IsoDT(2024, 2, 1, Morning),
             RawDT("num", "-", 2024, 2, 1, Evening, FALSE),
             SlashDT(13, 2, 2024, Morning),
             SlashDT(2, 13, 2024, Evening),
             SlashDT(1, 2, 2024, Evening),
             SlashDT(31, 2, 2024, Morning),
             RawDT("num", "/", 3, 14, 2024, Morning, FALSE),
             TextDT, BlankDT, NaN}}

\* Punches of two employees on one day, to be read in any order
OrderRows ==
  {RawRow(e[1], e[2], e[3], IsoDT(2024, 2, 1, e[4])) :
     e \in {<<Id7, NameAnu, LabelIn, Morning>>, <<Id7, NameAnu, LabelIn, Evening>>,
            <<Id7, NameAnu, LabelOut, Morning>>, <<Id7, NameAnu, LabelOut, Evening>>,
            <<Id07, NameBen, LabelIn, Midnight>>, <<Id12, NameBen, LabelInOut, Morning>>}}

\* The files read: up to MaxRows rows of one of the families
Inputs ==
  SeqsUpTo(DirectionRows, MaxRows) \cup SeqsUpTo(EmployeeRows, MaxRows)
    \cup SeqsUpTo(CalendarRows, MaxRows) \cup SeqsUpTo(DateTimeRows, MaxRows)

OrderInputs == SeqsUpTo(OrderRows, MaxRows)

EmployeeInputs == SeqsUpTo(EmployeeRows, MaxRows)

DateTimeInputs == SeqsUpTo(DateTimeRows, MaxRows)

\* [s[i] for i in sorted(indices)]
RECURSIVE At(_, _)
At(indices, s) ==
  IF indices = {} THEN <<>>
  ELSE LET i == CHOOSE x \in indices : \A y \in indices : x <= y
       IN <<s[i]>> \o At(indices \ {i}, s)

\* Punches of two employees in four months, none of them in March 2024, the
\* later months and the greater employee id first
MonthRows ==
  <<RawRow(Id7, NameAnu, LabelIn, IsoDT(2024, 4, 30, Morning)),
    RawRow(Id12, NameBen, LabelIn, IsoDT(2024, 1, 15, Morning)),
    RawRow(Id7, NameAnu, LabelIn, IsoDT(2024, 1, 15, Morning)),
    RawRow(Id7, NameAnu, LabelOut, IsoDT(2024, 2, 1, Evening)),
    RawRow(Id12, NameBen, LabelIn, IsoDT(2023, 12, 31, Morning))>>

\* The months of 28, 29, 30 and 31 days an employee is followed over
DaysMonths == {<<2023, 2>>, <<2024, 2>>, <<2024, 4>>, <<2023, 12>>}

\* An employee punching in on each of the first n days of a month
DaysFile(ym, n) ==
  [i \in 1..n |-> RawRow(Id7, NameAnu, LabelIn, IsoDT(ym[1], ym[2], i, Morning))]

DaysInputs ==
  UNION {{DaysFile(ym, n) : n \in 1..DaysInMonth(ym[1], ym[2])} : ym \in DaysMonths}

\* The files holding some of these rows
MonthInputs == {At(S, MonthRows) : S \in (SUBSET (1..Len(MonthRows))) \ {{}}}

\* ------------------------------------------------------------------------
\* preprocess_data
\* ------------------------------------------------------------------------
IdWidth == 8

\* A row of self.df after preprocessing
Row(id, name, tr, ts) ==
  [EmpID |-> id, EmployeeName |-> name, TR |-> tr, DateTime |-> ts,
   YearMonth |-> YearMonthOf(ts)]

HasDateTime(r) == r.DateTime # NaN

Parsed(r) == parse_datetime_safe(r.DateTime) # NaT

\* dropna(subset=['DateTime']) on the raw column
DropMissing(rows) == SelectSeq(rows, HasDateTime)

\* The rows kept after parsing, their string columns stripped, the id
\* zero-filled and the YearMonth column added
Preprocessed(rows) ==
  LET kept == SelectSeq(DropMissing(rows), Parsed)
  IN [i \in 1..Len(kept) |->
        Row(zfill(Strip(kept[i].EnNo), IdWidth), Strip(kept[i].Name),
            Strip(kept[i].TR), parse_datetime_safe(kept[i].DateTime))]

\* The rows lost since the file was read
LostSinceRead(rows) == Len(rows) - Len(Preprocessed(rows))

\* before_datetime_filter - len(self.df): the rows lost by the second dropna
DatetimeFailures(rows) == Len(DropMissing(rows)) - Len(Preprocessed(rows))

\* sorted(S) for a set S of "YYYY-MM" strings
RECURSIVE SortedMonths(_)
SortedMonths(S) ==
  IF S = {} THEN <<>>
  ELSE LET lo == CHOOSE x \in S : \A y \in S \ {x} : MonthLess(x, y)
       IN <<lo>> \o SortedMonths(S \ {lo})

\* sorted(self.df['YearMonth'].dropna().unique())
AvailableMonths(d) == SortedMonths({d[i].YearMonth : i \in 1..Len(d)})

\* ------------------------------------------------------------------------
\* generate_monthly_report
\* ------------------------------------------------------------------------
\* What generate_monthly_report and generate_summary_report return for a
\* month without rows (None), and the value of a variable not yet set
NoReport == <<>>

in_patterns ==
  << <<"t", "i", "m", "e", " ", "i", "n">>,
     <<"i", "n">>,
     <<"e", "n", "t", "r", "y">>,
     <<"c", "h", "e", "c", "k", " ", "i", "n">> >>

out_patterns ==
  << <<"t", "i", "m", "e", " ", "o", "u", "t">>,
     <<"o", "u", "t">>,
     <<"e", "x", "i", "t">>,
     <<"c", "h", "e", "c", "k", " ", "o", "u", "t">> >>

\* str.lower().str.contains('|'.join(patterns))
MatchesAny(tr, patterns) ==
  \E i \in 1..Len(patterns) : Contains(Lower(tr), patterns[i])

\* self.df[self.df['YearMonth'] == month]
MonthDf(d, ym) == SelectSeq(d, LAMBDA r : r.YearMonth = ym)

\* The roll to January without the year moving on
NextMonthStartSameYear(y, m) ==
  IF m = 12 THEN ToOrdinal(y, 1, 1) ELSE ToOrdinal(y, m + 1, 1)

\* The first day of the month after (y, m): December rolls to January of y + 1
NextMonthStart(y, m) ==
  IF m = 12 THEN ToOrdinal(y + 1, 1, 1) ELSE ToOrdinal(y, m + 1, 1)

\* start_date and end_date as ordinals
StartDate(ym) == ToOrdinal(ym[1], ym[2], 1)
EndDate(ym) == NextMonthStart(ym[1], ym[2]) - 1

\* pd.date_range(start=start_date, end=end_date, freq='D')
AllDays(ym) ==
  [i \in 1..(EndDate(ym) - StartDate(ym) + 1) |->
     FromOrdinal(StartDate(ym) + i - 1)]

\* s < t for the [EmpID, EmployeeName] lists
EmployeeLess(a, b) ==
  StrLess(a[1], b[1]) \/ (a[1] = b[1] /\ StrLess(a[2], b[2]))

\* sorted(S) for a set S of [EmpID, EmployeeName] lists
RECURSIVE SortedEmployees(_)
SortedEmployees(S) ==
  IF S = {} THEN <<>>
  ELSE LET lo == CHOOSE x \in S : \A y \in S \ {x} : EmployeeLess(x, y)
       IN <<lo>> \o SortedEmployees(S \ {lo})

\* sorted(month_df[['EmpID', 'EmployeeName']].drop_duplicates().values.tolist())
Employees(month_df) ==
  SortedEmployees({<<month_df[i].EmpID, month_df[i].EmployeeName>> : i \in 1..Len(month_df)})

\* month_df[month_df['EmpID'] == emp_id]
EmpRecords(month_df, emp_id) == SelectSeq(month_df, LAMBDA r : r.EmpID = emp_id)

DfIn(emp_records) == SelectSeq(emp_records, LAMBDA r : MatchesAny(r.TR, in_patterns))
DfOut(emp_records) == SelectSeq(emp_records, LAMBDA r : MatchesAny(r.TR, out_patterns))

\* The DateTime column of all the rows, whatever their date
Ungrouped(rows, day) == [i \in 1..Len(rows) |-> rows[i].DateTime]

\* The DateTime column of the rows of one date: a group of groupby(date)
Group(rows, day) ==
  LET g == SelectSeq(rows, LAMBDA r : DateOf(r.DateTime) = <<day.year, day.month, day.day>>)
  IN [i \in 1..Len(g) |-> g[i].DateTime]

\* .first() of a group
FirstTime(g) == g[1]

\* .min() and .max() of a group
RECURSIVE MinTime(_)
MinTime(g) ==
  IF Len(g) = 1 THEN g[1]
  ELSE LET m == MinTime(Tail(g))
       IN IF TimeLE(g[1], m) THEN g[1] ELSE m

RECURSIVE MaxTime(_)
MaxTime(g) ==
  IF Len(g) = 1 THEN g[1]
  ELSE LET m == MaxTime(Tail(g))
       IN IF TimeLE(m, g[1]) THEN g[1] ELSE m

\* in_times.get(date_key) and out_times.get(date_key): NaT stands for the
\* None of a date without group
InTimeOf(df_in, day) ==
  IF Group(df_in, day) = <<>> THEN NaT ELSE MinTime(Group(df_in, day))

OutTimeOf(df_out, day) ==
  IF Group(df_out, day) = <<>> THEN NaT ELSE MaxTime(Group(df_out, day))

\* '00:00'
ZeroTime == <<0, 0>>

\* in_time_str and out_time_str
TimeStr(t) == IF t # NaT THEN HHMM(t) ELSE ZeroTime

\* status, from the two formatted times
StatusOf(in_time_str, out_time_str) ==
  IF in_time_str # ZeroTime /\ out_time_str # ZeroTime THEN "P"
  ELSE IF in_time_str # ZeroTime \/ out_time_str # ZeroTime THEN "E"
  ELSE "A"

ReportRow(info, type, days) ==
  [Employee_Info |-> info, Detail_Type |-> type, Days |-> days]

\* The six rows of one employee: header, In-Time, Out-Time, Status, Date
\* and separator, each with one column Day_01.. per day of all_days
EmployeeBlock(month_df, emp, all_days) ==
  LET emp_records == EmpRecords(month_df, emp[1])
      df_in  == DfIn(emp_records)
      df_out == DfOut(emp_records)
      n == Len(all_days)
      in_time_data  == [i \in 1..n |-> TimeStr(InTimeOf(df_in, all_days[i]))]
      out_time_data == [i \in 1..n |-> TimeStr(OutTimeOf(df_out, all_days[i]))]
      status_data   == [i \in 1..n |-> StatusOf(in_time_data[i], out_time_data[i])]
      dates_data    == [i \in 1..n |-> DDMMYYYY(all_days[i])]
      blanks        == [i \in 1..n |-> ""]
  IN << ReportRow(emp, "Header", blanks),
        ReportRow(<<"In-Time">>, "InTime", in_time_data),
        ReportRow(<<"Out-Time">>, "OutTime", out_time_data),
        ReportRow(<<"Status">>, "Status", status_data),
        ReportRow(<<"Date">>, "Date", dates_data),
        ReportRow(<<"">>, "Separator", blanks) >>

\* report_rows after the employees from the i-th on are processed
RECURSIVE ReportRows(_, _, _, _)
ReportRows(month_df, employees, all_days, i) ==
  IF i > Len(employees) THEN <<>>
  ELSE EmployeeBlock(month_df, employees[i], all_days)
         \o ReportRows(month_df, employees, all_days, i + 1)

\* What generate_monthly_report(month) returns on the data d
MonthlyReport(d, ym) ==
  IF MonthDf(d, ym) = <<>> THEN NoReport
  ELSE ReportRows(MonthDf(d, ym), Employees(MonthDf(d, ym)), AllDays(ym), 1)

\* ------------------------------------------------------------------------
\* generate_summary_report
\* ------------------------------------------------------------------------
\* (end_date - start_date).days + 1
TotalWorkingDays(ym) == EndDate(ym) - StartDate(ym) + 1

\* emp_records['DateTime'].dt.date.nunique()
UniqueDates(emp_records) ==
  Cardinality({DateOf(emp_records[i].DateTime) : i \in 1..Len(emp_records)})

\* The percentage cut after two decimals
Truncated(present, total) == (present * 10000) \div total

\* round((present / total) * 100, 2), in hundredths of a percent
AttendancePercentage(present, total) == (present * 20000 + total) \div (2 * total)

SummaryRow(month_df, emp, total) ==
  LET present_days == UniqueDates(EmpRecords(month_df, emp[1]))
  IN [Employee_ID |-> emp[1],
      Employee_Name |-> emp[2],
      Total_Working_Days |-> total,
      Present_Days |-> present_days,
      Absent_Days |-> total - present_days,
      Attendance_Percentage |-> AttendancePercentage(present_days, total)]

\* What generate_summary_report(month) returns on the data d
SummaryReport(d, ym) ==
  IF MonthDf(d, ym) = <<>> THEN NoReport
  ELSE LET month_df == MonthDf(d, ym)
           employees == Employees(month_df)
       IN [i \in 1..Len(employees) |->
             SummaryRow(month_df, employees[i], TotalWorkingDays(ym))]

\* ------------------------------------------------------------------------
\* The state machine
\* ------------------------------------------------------------------------
\* A month no input row falls in
NoDataMonth == <<2024, 3>>

\* The months the reports are asked for
MonthArgs == Range(available_months) \cup {NoDataMonth}

TypeOK ==
  /\ pc \in {"init", "loaded", "ready", "failed", "done"}
  /\ selection \in {"none", "all", "list", "menu", "caller"}
  /\ missing_removed \in 0..(MaxRows + 1)
  /\ datetime_failures \in 0..(MaxRows + 1)

Init ==
  /\ raw = <<>>
  /\ df = <<>>
  /\ pc = "init"
  /\ missing_removed = 0
  /\ datetime_failures = 0
  /\ available_months = <<>>
  /\ month = NoReport
  /\ monthly_report = NoReport
  /\ summary_report = NoReport
  /\ selected_months = <<>>
  /\ selection = "none"
  /\ written = <<>>

\* read_attendance_file, the file one of files: its rows become self.df
ReadFrom(files) ==
  /\ pc = "init"
  /\ \E rows \in files : raw' = rows
  /\ pc' = "loaded"
  /\ UNCHANGED <<df, missing_removed, datetime_failures, available_months,
                 month, monthly_report, summary_report, run_vars>>

read_attendance_file == ReadFrom(Inputs)

read_order_file == ReadFrom(OrderInputs)

read_employee_file == ReadFrom(EmployeeInputs)

read_datetime_file == ReadFrom(DateTimeInputs)

read_month_file == ReadFrom(MonthInputs)

read_days_file == ReadFrom(DaysInputs)

\* preprocess_data.  With no row left after the rows without DateTime are
\* removed, the DateTime column is not a datetime column and the .dt
\* accessor raises: the run ends.
preprocess_data ==
  /\ pc = "loaded"
  /\ missing_removed' = Len(raw) - Len(DropMissing(raw))
  /\ IF DropMissing(raw) = <<>>
       THEN /\ pc' = "failed"
            /\ UNCHANGED <<df, datetime_failures, available_months>>
       ELSE /\ df' = Preprocessed(raw)
            /\ datetime_failures' = DatetimeFailures(raw)
            /\ available_months' = AvailableMonths(Preprocessed(raw))
            /\ pc' = "ready"
  /\ UNCHANGED <<raw, month, monthly_report, summary_report, run_vars>>

\* generate_reports, one month of its loop: generate_monthly_report(month)
generate_monthly_report ==
  /\ pc = "ready"
  /\ \E ym \in MonthArgs :
       /\ month' = ym
       /\ monthly_report' = MonthlyReport(df, ym)
  /\ summary_report' = NoReport
  /\ UNCHANGED <<raw, df, pc, missing_removed, datetime_failures, available_months,
                 run_vars>>

\* generate_reports, the same month: generate_summary_report(month), called
\* when the monthly report is not None
generate_summary_report ==
  /\ pc = "ready"
  /\ month # NoReport
  /\ monthly_report # NoReport
  /\ summary_report' = SummaryReport(df, month)
  /\ UNCHANGED <<raw, df, pc, missing_removed, datetime_failures, available_months,
                 month, monthly_report, run_vars>>

Next ==
  \/ read_attendance_file
  \/ preprocess_data
  \/ generate_monthly_report
  \/ generate_summary_report

Spec == Init /\ [][Next]_vars

\* The same program on the files of OrderInputs
NextOrder ==
  \/ read_order_file
  \/ preprocess_data
  \/ generate_monthly_report
  \/ generate_summary_report

SpecOrder == Init /\ [][NextOrder]_vars

\* The same program on the files of EmployeeInputs
NextEmployee ==
  \/ read_employee_file
  \/ preprocess_data
  \/ generate_monthly_report
  \/ generate_summary_report

SpecEmployee == Init /\ [][NextEmployee]_vars

\* The same program on the files of DateTimeInputs
NextDateTime ==
  \/ read_datetime_file
  \/ preprocess_data
  \/ generate_monthly_report
  \/ generate_summary_report

SpecDateTime == Init /\ [][NextDateTime]_vars

\* The same program on the files of DaysInputs
NextDays ==
  \/ read_days_file
  \/ preprocess_data
  \/ generate_monthly_report
  \/ generate_summary_report

SpecDays == Init /\ [][NextDays]_vars

\* ------------------------------------------------------------------------
\* generate_reports and the selection of the months
\* ------------------------------------------------------------------------
\* A file written for a month: the detail table ("report") or the summary
\* table ("summary"), as a sheet of the workbook and as a CSV file
Written(kind, ym, table) == [file |-> kind, month |-> ym, table |-> table]

\* The body of the loop of generate_reports for one month
WriteMonth(d, ym) ==
  LET monthly == MonthlyReport(d, ym)
      summary == SummaryReport(d, ym)
  IN IF monthly = NoReport THEN <<>>
     ELSE <<Written("report", ym, monthly)>>
            \o (IF summary = NoReport THEN <<>>
                ELSE <<Written("summary", ym, summary)>>)

\* The loop, given up at the first month without data
RECURSIVE WriteUntilNoData(_, _, _)
WriteUntilNoData(d, months, i) ==
  IF i > Len(months) \/ MonthlyReport(d, months[i]) = NoReport THEN <<>>
  ELSE WriteMonth(d, months[i]) \o WriteUntilNoData(d, months, i + 1)

\* for i, month in enumerate(selected_months, 1), from the i-th month on
RECURSIVE WriteMonths(_, _, _)
WriteMonths(d, months, i) ==
  IF i > Len(months) THEN <<>>
  ELSE WriteMonth(d, months[i]) \o WriteMonths(d, months, i + 1)

\* generate_reports(selected), called from where: an empty list returns at
\* once, and a workbook without a sheet raises on saving, which is caught
GenerateReports(selected, from) ==
  /\ pc = "ready"
  /\ selected_months' = selected
  /\ selection' = from
  /\ written' = WriteMonths(df, selected, 1)
  /\ pc' = "done"
  /\ UNCHANGED <<raw, df, missing_removed, datetime_failures, available_months,
                 month, monthly_report, summary_report>>

\* The lists of months a caller may ask for
MonthLists == {<<>>} \cup SeqsUpTo(MonthArgs, MaxMonths)

\* generate_reports called with a list of months of the caller's choice
generate_reports == \E selected \in MonthLists : GenerateReports(selected, "caller")

\* main with --months all
main_months_all == GenerateReports(available_months, "all")

\* main with --months m1,m2,...: the requested months that are available;
\* with none of them available main returns
main_months_list ==
  \E requested_months \in SeqsUpTo(MonthArgs, MaxMonths) :
    GenerateReports(SelectSeq(requested_months,
                              LAMBDA m : m \in Range(available_months)), "list")

\* A part of an answer to the menu: a number, a range "a-b", or anything else
NumPart(a) == [kind |-> "num", a |-> a, b |-> a]
RangePart(a, b) == [kind |-> "range", a |-> a, b |-> b]
TextPart == [kind |-> "text", a |-> 0, b |-> 0]

\* The parts one may type with n months on the menu, numbers off the menu
\* among them
Parts(n) ==
  {NumPart(a) : a \in 0..(n + 1)}
    \cup {RangePart(a, b) : a \in 0..(n + 1), b \in 0..(n + 1)}
    \cup {TextPart}

\* What one part adds to selected_indices
PartIndices(part, n) ==
  CASE part.kind = "range" ->
         IF 1 <= part.a /\ part.a <= n /\ 1 <= part.b /\ part.b <= n
           THEN part.a..part.b ELSE {}
    [] part.kind = "num" ->
         IF 1 <= part.a /\ part.a <= n THEN {part.a} ELSE {}
    [] OTHER -> {}

\* selected_indices after the parts of an answer of at most MaxParts parts,
\* each part adding its indices to the set
SelectedIndices(n) ==
  {UNION Range(added) :
     added \in SeqsUpTo({PartIndices(part, n) : part \in Parts(n)}, MaxParts)}

\* What get_month_selection_menu returns: nothing on 'quit' or with no
\* month to choose from, all the months on 'all', else the months of the
\* confirmed answer; an answer without a valid number, or not confirmed,
\* is asked again
MenuSelections ==
  {<<>>}
    \cup (IF available_months = <<>> THEN {}
          ELSE {available_months}
                 \cup {At(selected_indices, available_months) :
                         selected_indices \in
                           SelectedIndices(Len(available_months)) \ {{}}})

\* main without --months: the months chosen on the menu
main_interactive == \E selected \in MenuSelections : GenerateReports(selected, "menu")

\* The program from the files of MonthInputs to the written reports
NextReports ==
  \/ read_month_file
  \/ preprocess_data
  \/ generate_reports
  \/ main_months_all
  \/ main_months_list
  \/ main_interactive

SpecReports == Init /\ [][NextReports]_vars

\* ------------------------------------------------------------------------
\* Reading the generated tables
\* ------------------------------------------------------------------------
\* A detail table was generated for the month
Generated == pc = "ready" /\ monthly_report # NoReport

\* The detail table and the summary table were generated for the month
Summarized == Generated /\ summary_report # NoReport

\* The positions of the header rows; the four data rows of a block follow
Headers == {h \in 1..Len(monthly_report) : monthly_report[h].Detail_Type = "Header"}

EmpIdAt(h) == monthly_report[h].Employee_Info[1]
EmpNameAt(h) == monthly_report[h].Employee_Info[2]
InTimeAt(h, i) == monthly_report[h + 1].Days[i]
OutTimeAt(h, i) == monthly_report[h + 2].Days[i]
StatusAt(h, i) == monthly_report[h + 3].Days[i]
DateAt(h, i) == monthly_report[h + 4].Days[i]

\* The number of days of a month, from the calendar
GregorianDays(ym) ==
  CASE ym[2] \in {4, 6, 9, 11} -> 30
    [] ym[2] = 2 ->
         IF (ym[1] % 4 = 0 /\ ym[1] % 100 # 0) \/ ym[1] % 400 = 0 THEN 29 ELSE 28
    [] OTHER -> 31

\* The events of employee id on day i of the month
EventsOn(id, i) ==
  {r \in Range(df) : r.EmpID = id /\ DateOf(r.DateTime) = <<month[1], month[2], i>>}

\* The direction of an event, from its label: IN or OUT when the label
\* matches one keyword set only, UNKNOWN when it matches both or neither
Direction(tr) ==
  IF MatchesAny(tr, in_patterns) /\ ~MatchesAny(tr, out_patterns) THEN "IN"
  ELSE IF MatchesAny(tr, out_patterns) /\ ~MatchesAny(tr, in_patterns) THEN "OUT"
  ELSE "UNKNOWN"

\* ------------------------------------------------------------------------
\* C1
\* ------------------------------------------------------------------------
\* C1: every employee with an event in the month has a grid, and each row
\* of a grid (In-Time, Out-Time, Status, Date) has one entry per calendar
\* day of the month, the i-th entry of the Date row being day i of the month.
C1_GridCoversMonth ==
  Generated =>
    /\ \A r \in Range(MonthDf(df, month)) : \E h \in Headers : EmpIdAt(h) = r.EmpID
    /\ \A h \in Headers :
         /\ \A k \in 1..4 : Len(monthly_report[h + k].Days) = GregorianDays(month)
         /\ \A i \in 1..GregorianDays(month) : DateAt(h, i) = <<i, month[2], month[1]>>

\* A grid of a December, 31 days long and ending on the 31st
C1_DecemberGrid ==
  /\ Generated
  /\ month[2] = 12
  /\ \E h \in Headers :
       /\ Len(monthly_report[h + 4].Days) = 31
       /\ DateAt(h, 31) = <<31, 12, month[1]>>

\* ------------------------------------------------------------------------
\* C2
\* ------------------------------------------------------------------------
\* The earliest and the latest of a set of events
Earliest(E) == CHOOSE r \in E : \A q \in E : TimeLE(r.DateTime, q.DateTime)
Latest(E) == CHOOSE r \in E : \A q \in E : TimeLE(q.DateTime, r.DateTime)

\* C2: for every employee and day of the month, the in-time is the time of
\* the earliest of the employee's events of direction IN on that day, and
\* the out-time the time of the latest of the events of direction OUT.
C2_MinInMaxOut ==
  Generated =>
    \A h \in Headers : \A i \in 1..Len(monthly_report[h + 1].Days) :
      LET ins  == {r \in EventsOn(EmpIdAt(h), i) : Direction(r.TR) = "IN"}
          outs == {r \in EventsOn(EmpIdAt(h), i) : Direction(r.TR) = "OUT"}
      IN /\ ins # {} => InTimeAt(h, i) = HHMM(Earliest(ins).DateTime)
         /\ outs # {} => OutTimeAt(h, i) = HHMM(Latest(outs).DateTime)

\* The same reduction over the events the code selects: those whose label
\* contains an IN keyword, and those whose label contains an OUT keyword
C2_ReductionOverSelected ==
  Generated =>
    \A h \in Headers : \A i \in 1..Len(monthly_report[h + 1].Days) :
      LET ins  == {r \in EventsOn(EmpIdAt(h), i) : MatchesAny(r.TR, in_patterns)}
          outs == {r \in EventsOn(EmpIdAt(h), i) : MatchesAny(r.TR, out_patterns)}
      IN /\ InTimeAt(h, i) =
              IF ins = {} THEN ZeroTime ELSE HHMM(Earliest(ins).DateTime)
         /\ OutTimeAt(h, i) =
              IF outs = {} THEN ZeroTime ELSE HHMM(Latest(outs).DateTime)

\* ------------------------------------------------------------------------
\* C3
\* ------------------------------------------------------------------------
\* A first-in, a last-out was resolved for employee id on day i: the day
\* has an event among those selected as IN, as OUT
FirstInResolved(id, i) == \E r \in EventsOn(id, i) : MatchesAny(r.TR, in_patterns)
LastOutResolved(id, i) == \E r \in EventsOn(id, i) : MatchesAny(r.TR, out_patterns)

\* C3: the status of a day is P when a first-in and a last-out were
\* resolved, E when one of the two was, A when neither was.
C3_StatusFromResolved ==
  Generated =>
    \A h \in Headers : \A i \in 1..Len(monthly_report[h + 3].Days) :
      StatusAt(h, i) =
        IF FirstInResolved(EmpIdAt(h), i) /\ LastOutResolved(EmpIdAt(h), i) THEN "P"
        ELSE IF FirstInResolved(EmpIdAt(h), i) \/ LastOutResolved(EmpIdAt(h), i) THEN "E"
        ELSE "A"

\* ------------------------------------------------------------------------
\* C4
\* ------------------------------------------------------------------------
\* The rows without the events of direction UNKNOWN
KnownOnly(rows) == SelectSeq(rows, LAMBDA r : Direction(r.TR) # "UNKNOWN")

\* C4: the in-time and the out-time of every employee and day are those of
\* the data without the events of direction UNKNOWN.
C4_UnknownContributesNothing ==
  Generated =>
    \A h \in Headers :
      LET block == EmployeeBlock(KnownOnly(MonthDf(df, month)),
                                 monthly_report[h].Employee_Info, AllDays(month))
      IN /\ monthly_report[h + 1].Days = block[2].Days
         /\ monthly_report[h + 2].Days = block[3].Days

\* ------------------------------------------------------------------------
\* C5
\* ------------------------------------------------------------------------
\* The days of the grid at header h whose status is in S
DaysWithStatus(h, S) ==
  Cardinality({i \in 1..Len(monthly_report[h + 3].Days) : StatusAt(h, i) \in S})

\* C5: in every summary row, Present_Days is the number of days of the
\* employee's grid with status P or E, and Absent_Days the number with A.
C5_SummaryCountsGrid ==
  Summarized =>
    \A k \in 1..Len(summary_report) : \A h \in Headers :
      (/\ EmpIdAt(h) = summary_report[k].Employee_ID
       /\ EmpNameAt(h) = summary_report[k].Employee_Name)
      => /\ summary_report[k].Present_Days = DaysWithStatus(h, {"P", "E"})
         /\ summary_report[k].Absent_Days = DaysWithStatus(h, {"A"})

\* ------------------------------------------------------------------------
\* C6
\* ------------------------------------------------------------------------
\* An id without its leading zeros
RECURSIVE StripZeros(_)
StripZeros(s) == IF Len(s) > 1 /\ s[1] = "0" THEN StripZeros(Tail(s)) ELSE s

\* The rows with every id written without leading zeros
Unpadded(rows) ==
  [i \in 1..Len(rows) |-> [rows[i] EXCEPT !.EnNo = StripZeros(rows[i].EnNo)]]

\* C6: raw ids that differ only by leading zeros become one id of 8
\* characters, and the data, the detail table and the summary table are
\* those of the same rows with the ids written without leading zeros: the
\* events of such ids are aggregated together.
C6_LeadingZerosCollapse ==
  pc = "ready" =>
    /\ \A r \in Range(df) : Len(r.EmpID) = IdWidth
    /\ \A a, b \in Range(DropMissing(raw)) :
         (Parsed(a) /\ Parsed(b) /\ StripZeros(a.EnNo) = StripZeros(b.EnNo))
           => \E id \in {r.EmpID : r \in Range(df)} :
                Preprocessed(<<a>>)[1].EmpID = id /\ Preprocessed(<<b>>)[1].EmpID = id
    /\ df = Preprocessed(Unpadded(raw))
    /\ Generated => monthly_report = MonthlyReport(Preprocessed(Unpadded(raw)), month)
    /\ Summarized => summary_report = SummaryReport(Preprocessed(Unpadded(raw)), month)

\* "7" and "00000007" in one file, reported in one block and one summary row
C6_PaddedAndUnpadded ==
  /\ Summarized
  /\ \E i, j \in 1..Len(raw) : raw[i].EnNo = Id7 /\ raw[j].EnNo = Id07
  /\ Cardinality(Headers) = 1
  /\ Len(summary_report) = 1
  /\ summary_report[1].Employee_ID = Id07

\* ------------------------------------------------------------------------
\* C7
\* ------------------------------------------------------------------------
\* The ids with an event in the month
IdsOfMonth == {r.EmpID : r \in Range(MonthDf(df, month))}

\* C7: the detail table has one block per id with an event in the month,
\* a header row followed by the In-Time, Out-Time, Status and Date rows,
\* and the summary table one row per id.
C7_OneBlockPerId ==
  /\ Generated =>
       /\ Cardinality(Headers) = Cardinality(IdsOfMonth)
       /\ \A id \in IdsOfMonth : \E h \in Headers : EmpIdAt(h) = id
       /\ \A h \in Headers :
            <<monthly_report[h + 1].Detail_Type, monthly_report[h + 2].Detail_Type,
              monthly_report[h + 3].Detail_Type, monthly_report[h + 4].Detail_Type>>
              = <<"InTime", "OutTime", "Status", "Date">>
  /\ Summarized =>
       /\ Len(summary_report) = Cardinality(IdsOfMonth)
       /\ \A id \in IdsOfMonth :
            \E k \in 1..Len(summary_report) : summary_report[k].Employee_ID = id

\* ------------------------------------------------------------------------
\* C8
\* ------------------------------------------------------------------------
\* A date-time field that is a date and a time under some reading of its
\* three numbers: year-month-day, day-month-year or month-day-year
IsDateTime(s) ==
  /\ s.kind = "num"
  /\ \E f \in {<<s.a, s.b, s.c>>, <<s.c, s.b, s.a>>, <<s.c, s.a, s.b>>} :
       FourDigits(f[1]) /\ ValidDate(f[1], f[2], f[3])

\* A row with a date-time field that is there and is no date-time
Malformed(r) == r.DateTime # NaN /\ ~IsDateTime(r.DateTime)

WithoutMalformed(rows) == SelectSeq(rows, LAMBDA r : ~Malformed(r))

\* C8: the rows with an unparsable date-time are dropped and counted: the
\* data, the detail table and the summary table are those of the input
\* without these rows, and datetime_failures is their number.
C8_MalformedRowsDropped ==
  pc = "ready" =>
    /\ datetime_failures = Len(raw) - Len(WithoutMalformed(raw))
    /\ df = Preprocessed(WithoutMalformed(raw))
    /\ Generated => monthly_report = MonthlyReport(Preprocessed(WithoutMalformed(raw)), month)
    /\ Summarized => summary_report = SummaryReport(Preprocessed(WithoutMalformed(raw)), month)

\* A file with a malformed row, a row without date-time and a good row,
\* its reports generated
C8_ReportsDespiteMalformed ==
  /\ Summarized
  /\ datetime_failures = 1
  /\ missing_removed = 1
  /\ Len(df) = 1

\* ------------------------------------------------------------------------
\* C9
\* ------------------------------------------------------------------------
\* C9: every day of the month is in the grid of every employee of the
\* table, and a day without event of the employee has in-time and out-time
\* '00:00' and status A.
C9_EmptyDaysAbsent ==
  Generated =>
    \A h \in Headers :
      /\ Len(monthly_report[h + 3].Days) = GregorianDays(month)
      /\ \A i \in 1..GregorianDays(month) :
           EventsOn(EmpIdAt(h), i) = {}
             => /\ InTimeAt(h, i) = ZeroTime
                /\ OutTimeAt(h, i) = ZeroTime
                /\ StatusAt(h, i) = "A"

\* An employee present on day 1, with no event from day 2 to the last day
C9_PresentThenAbsent ==
  /\ Generated
  /\ \E h \in Headers :
       /\ StatusAt(h, 1) = "P"
       /\ \A i \in 2..GregorianDays(month) :
            EventsOn(EmpIdAt(h), i) = {} /\ StatusAt(h, i) = "A"

\* ------------------------------------------------------------------------
\* C10
\* ------------------------------------------------------------------------
Orderings(n) ==
  {p \in [1..n -> 1..n] : \A i, j \in 1..n : p[i] = p[j] => i = j}

Permute(s, p) == [i \in 1..Len(s) |-> s[p[i]]]

\* C10: the tables generated are those of every permutation of the rows
\* of the file, the rows as they are among them: the order of the events
\* does not matter, and a second run returns what the first returned.
C10_OrderIndependent ==
  Generated =>
    \A p \in Orderings(Len(raw)) :
      /\ monthly_report = MonthlyReport(Preprocessed(Permute(raw, p)), month)
      /\ Summarized => summary_report = SummaryReport(Preprocessed(Permute(raw, p)), month)

\* Two IN events of one employee and day, the later one first in the file
C10_LaterEventFirst ==
  /\ Generated
  /\ \E i, j \in 1..Len(df) :
       /\ i < j
       /\ df[i].EmpID = df[j].EmpID
       /\ DateOf(df[i].DateTime) = DateOf(df[j].DateTime)
       /\ df[i].YearMonth = month
       /\ MatchesAny(df[i].TR, in_patterns) /\ MatchesAny(df[j].TR, in_patterns)
       /\ df[j].DateTime.sec < df[i].DateTime.sec

\* ------------------------------------------------------------------------
\* Reading the written files
\* ------------------------------------------------------------------------
\* generate_reports has run
Reported == pc = "done"

\* Some row of self.df falls in the month
HasRows(ym) == \E i \in 1..Len(df) : df[i].YearMonth = ym

\* The detail table of the month was written, and its summary right after
WrittenFor(ym) ==
  \E k \in 1..(Len(written) - 1) :
    /\ written[k] = Written("report", ym, MonthlyReport(df, ym))
    /\ written[k + 1] = Written("summary", ym, SummaryReport(df, ym))
    /\ written[k].table # NoReport
    /\ written[k + 1].table # NoReport

\* C11: in generate_reports a selected month without a matching row gets no
\* detail and no summary report, and every other selected month, before and
\* after it in the list, gets both: a month without data never ends the
\* processing of the months that remain.
C11_NoDataMonthSkipped ==
  Reported =>
    \A i \in 1..Len(selected_months) :
      IF HasRows(selected_months[i])
        THEN WrittenFor(selected_months[i])
        ELSE \A k \in 1..Len(written) : written[k].month # selected_months[i]

\* A month without data between two months with data, both reported
C11_BetweenTwoMonths ==
  /\ Reported
  /\ \E i, j, k \in 1..Len(selected_months) :
       /\ i < j /\ j < k
       /\ HasRows(selected_months[i])
       /\ ~HasRows(selected_months[j])
       /\ HasRows(selected_months[k])
       /\ selected_months[i] # selected_months[k]
       /\ WrittenFor(selected_months[i])
       /\ WrittenFor(selected_months[k])

\* ------------------------------------------------------------------------
\* C12
\* ------------------------------------------------------------------------
\* The distance of a from b
Distance(a, b) == IF a < b THEN b - a ELSE a - b

\* C12: in every summary row totalDays is the number of calendar days of
\* the month and at least 1, presentDays lies between 0 and totalDays,
\* absentDays is totalDays - presentDays, and the percentage is
\* presentDays / totalDays * 100 rounded to two decimals (the hundredth
\* nearest to it): 22 of 30 days gives 73.33.
C12_SummaryArithmetic ==
  Summarized =>
    \A k \in 1..Len(summary_report) :
      LET row == summary_report[k]
      IN /\ row.Total_Working_Days = GregorianDays(month)
         /\ row.Total_Working_Days >= 1
         /\ 0 <= row.Present_Days
         /\ row.Present_Days <= row.Total_Working_Days
         /\ row.Absent_Days = row.Total_Working_Days - row.Present_Days
         /\ row.Absent_Days >= 0
         /\ 2 * Distance(row.Attendance_Percentage * row.Total_Working_Days,
                         row.Present_Days * 10000) <= row.Total_Working_Days
         /\ (row.Present_Days = 22 /\ row.Total_Working_Days = 30)
              => row.Attendance_Percentage = 7333

\* An employee with records on 22 days of a month of 30
C12_TwentyTwoOfThirty ==
  /\ Summarized
  /\ \E k \in 1..Len(summary_report) :
       /\ summary_report[k].Total_Working_Days = 30
       /\ summary_report[k].Present_Days = 22
       /\ summary_report[k].Absent_Days = 8
       /\ summary_report[k].Attendance_Percentage = 7333

\* ------------------------------------------------------------------------
\* C13
\* ------------------------------------------------------------------------
\* The months generate_reports wrote a detail table for, in the order it
\* wrote them
ReportedMonths ==
  LET reports == SelectSeq(written, LAMBDA w : w.file = "report")
  IN [k \in 1..Len(reports) |-> reports[k].month]

\* Each month once, the earlier month first
Chronological(months) ==
  \A i, j \in 1..Len(months) : i < j => MonthLess(months[i], months[j])

\* The employee ids of a written table, from top to bottom
IdsOf(w) ==
  IF w.file = "report"
    THEN LET headers == SelectSeq(w.table, LAMBDA row : row.Detail_Type = "Header")
         IN [k \in 1..Len(headers) |-> headers[k].Employee_Info[1]]
    ELSE [k \in 1..Len(w.table) |-> w.table[k].Employee_ID]

Ascending(ids) == \A i, j \in 1..Len(ids) : i < j => ~StrLess(ids[j], ids[i])

EmployeesAscending == \A k \in 1..Len(written) : Ascending(IdsOf(written[k]))

\* C13: whichever way main selects the months (--months list, --months
\* all, the menu), the months are processed in chronological order, each at
\* most once, and within a month the employee blocks and the summary rows
\* are in ascending order of employee id.
C13_DeterministicOrder ==
  (Reported /\ selection \in {"all", "list", "menu"}) =>
    /\ Chronological(ReportedMonths)
    /\ EmployeesAscending

\* With --months all and with the menu the months are in chronological
\* order, each once, and the employees are in ascending order of id however
\* the months were selected.
C13_OrderedUnlessListed ==
  /\ (Reported /\ selection \in {"all", "menu"}) => Chronological(ReportedMonths)
  /\ Reported => EmployeesAscending

====
